---- MODULE Spec2Model ----
(***************************************************************************)
(* A model of rectedit.py: the global listener registry (listen, notify,   *)
(* unsubscribe), the two commands (AddEditRectCommand, MoveRectCommand),   *)
(* the editor controller RectEdit with its handlers and main loop, and the *)
(* helpers shorthand, EditRect.resize_handles and draw_border.             *)
(***************************************************************************)
EXTENDS Integers, Sequences, FiniteSets, TLC

VARIABLES
    listeners,    \* _listeners: event type -> list of callbacks
    editrects,    \* RectEdit.editrects: list of rectangles (EditRect.rect)
    buttons,      \* RectEdit.buttons: list of button rectangles
    draw_rects,   \* RectEdit.draw_rects: the highlight-draw list
    mrect,        \* MoveRectCommand.rect: index into editrects, 0 for None
    released,     \* history: the rectangle the last end() unbound, 0 once begin binds again
    running,      \* RectEdit.running
    queue,        \* pygame's event queue (events posted, not yet drained)
    calls,        \* callbacks invoked by the last operation, in order
    cmdlog,       \* command begin() invocations of the last operation
    err,          \* the exception the last operation raised, "none" if none
    op,           \* the last operation and its arguments
    pc,           \* position of loop(): "init", "tick", "dispatch", "returned", "raised"
    batch,        \* events of the current pygame.event.get() not yet dispatched
    ninputs,      \* number of input events the user has produced so far
    sh_args,      \* shorthand: the argument tuple of the call
    sh_out,       \* shorthand: the result of the call
    er_rect,      \* EditRect.rect of the EditRect whose resize_handles() is called
    er_handles,   \* resize_handles: the list returned, <<>> before the call
    im_size,      \* draw_border: image.get_size()
    im_width,     \* draw_border: the width argument
    im_pixels     \* draw_border: the pixels of image, position -> colour

vars == <<listeners, editrects, buttons, draw_rects, mrect, released, running, queue,
          calls, cmdlog, err, op, pc, batch, ninputs, sh_args, sh_out,
          er_rect, er_handles, im_size, im_width, im_pixels>>

-----------------------------------------------------------------------------
(* Bounds of the model *)

MaxRects == 2
MaxListeners == 3
MaxDraw == 2
MaxQueue == 1
MaxCoord == 600
MaxInputs == 6
MaxPending == 2
MaxArgs == 5
MaxSide == 9
MaxImage == 4
MaxBorder == 3

(* Program constants *)

ScreenW == 800
ScreenH == 600
ButtonSize == 50
ButtonMargin == 10

-----------------------------------------------------------------------------
(* pygame.Rect *)

Rect(x, y, w, h) == [x |-> x, y |-> y, w |-> w, h |-> h]

Min2(a, b) == IF a <= b THEN a ELSE b

\* pygame.Rect.collidepoint: left/top edges inside, right/bottom edges outside
collidepoint(r, p) ==
    /\ r.x <= p[1] /\ p[1] < r.x + r.w
    /\ r.y <= p[2] /\ p[2] < r.y + r.h

center(r) == <<r.x + (r.w \div 2), r.y + (r.h \div 2)>>

SetCenter(r, c) == [r EXCEPT !.x = c[1] - (r.w \div 2), !.y = c[2] - (r.h \div 2)]

\* RectEdit.init: world = screen.get_rect() of the 800x600 display
world == Rect(0, 0, ScreenW, ScreenH)

-----------------------------------------------------------------------------
(* EditRect: the four corner handles *)

handle_rect(r) ==
    LET size == Min2(r.w, r.h) \div 4 IN Rect(0, 0, size, size)

topleft_resize_handle(r) ==
    [handle_rect(r) EXCEPT !.x = r.x, !.y = r.y]

\* a plausible slip: the handle's topleft put on the owner's topright corner
topright_resize_handle_outside(r) ==
    LET h == handle_rect(r) IN [h EXCEPT !.x = r.x + r.w, !.y = r.y]

topright_resize_handle(r) ==
    LET h == handle_rect(r) IN [h EXCEPT !.x = r.x + r.w - h.w, !.y = r.y]

bottomright_resize_handle(r) ==
    LET h == handle_rect(r)
    IN [h EXCEPT !.x = r.x + r.w - h.w, !.y = r.y + r.h - h.h]

bottomleft_resize_handle(r) ==
    LET h == handle_rect(r) IN [h EXCEPT !.x = r.x, !.y = r.y + r.h - h.h]

resize_handles(r) ==
    << topleft_resize_handle(r), topright_resize_handle(r),
       bottomright_resize_handle(r), bottomleft_resize_handle(r) >>

-----------------------------------------------------------------------------
(* Events and callbacks *)

EventTypes == {"QUIT", "KEYDOWN", "MOUSEMOTION", "MOUSEBUTTONDOWN", "MOUSEBUTTONUP"}

Event(type, pos, rel, key) == [type |-> type, pos |-> pos, rel |-> rel, key |-> key]

EditorCallbacks == [ QUIT            |-> "RectEdit.on_quit",
                     KEYDOWN         |-> "RectEdit.on_keydown",
                     MOUSEMOTION     |-> "RectEdit.on_mousemotion",
                     MOUSEBUTTONDOWN |-> "RectEdit.on_mousebuttondown",
                     MOUSEBUTTONUP   |-> "RectEdit.on_mousebuttonup" ]

MoveUp == "MoveRectCommand.on_mousebuttonup"
MoveMotion == "MoveRectCommand.on_mousemotion"

\* The editor's state as one value, so that handlers compose as functions.
State == [ listeners |-> listeners, editrects |-> editrects, buttons |-> buttons,
           draw_rects |-> draw_rects, mrect |-> mrect, released |-> released,
           running |-> running,
           queue |-> queue, calls |-> calls, cmdlog |-> cmdlog, err |-> err ]

Install(s) ==
    /\ listeners' = s.listeners
    /\ editrects' = s.editrects
    /\ buttons' = s.buttons
    /\ draw_rects' = s.draw_rects
    /\ mrect' = s.mrect
    /\ released' = s.released
    /\ running' = s.running
    /\ queue' = s.queue
    /\ calls' = s.calls
    /\ cmdlog' = s.cmdlog
    /\ err' = s.err

Install_Init(s) ==
    /\ listeners = s.listeners
    /\ editrects = s.editrects
    /\ buttons = s.buttons
    /\ draw_rects = s.draw_rects
    /\ mrect = s.mrect
    /\ released = s.released
    /\ running = s.running
    /\ queue = s.queue
    /\ calls = s.calls
    /\ cmdlog = s.cmdlog
    /\ err = s.err

\* A fresh operation starts with empty logs and no pending exception.
Fresh(s) == [s EXCEPT !.calls = <<>>, !.cmdlog = <<>>, !.err = "none"]

-----------------------------------------------------------------------------
(* The listener registry *)

Count(seq, x) == Cardinality({i \in 1..Len(seq) : seq[i] = x})

IndexOf(seq, x) ==
    CHOOSE i \in 1..Len(seq) : seq[i] = x /\ \A j \in 1..(i-1) : seq[j] # x

\* list.remove: drops the first equal element
RemoveFirst(seq, x) ==
    LET i == IndexOf(seq, x)
    IN SubSeq(seq, 1, i-1) \o SubSeq(seq, i+1, Len(seq))

listen(s, type, cb) ==
    [s EXCEPT !.listeners[type] = Append(@, cb)]

\* a plausible slip: every registration of the callback dropped, not the first
unsubscribe_all(s, type, cb) ==
    IF Count(s.listeners[type], cb) > 0
    THEN [s EXCEPT !.listeners[type] = SelectSeq(@, LAMBDA c : c # cb)]
    ELSE [s EXCEPT !.err = "ValueError"]

\* a plausible slip: an absent callback ignored ("if callback in list")
unsubscribe_silent(s, type, cb) ==
    IF Count(s.listeners[type], cb) > 0
    THEN [s EXCEPT !.listeners[type] = RemoveFirst(@, cb)]
    ELSE s

\* list.remove raises ValueError when the element is absent
unsubscribe(s, type, cb) ==
    IF Count(s.listeners[type], cb) > 0
    THEN [s EXCEPT !.listeners[type] = RemoveFirst(@, cb)]
    ELSE [s EXCEPT !.err = "ValueError"]

-----------------------------------------------------------------------------
(* AddEditRectCommand *)

\* a plausible slip: the new rectangle's corner, not its centre, put at the centre
NewEditRect_topleft ==
    LET c == center(world)
    IN Rect(c[1], c[2], world.w \div 4, world.h \div 4)

NewEditRect ==
    SetCenter(Rect(0, 0, world.w \div 4, world.h \div 4), center(world))

AddEditRectCommand_begin(s, ev) ==
    [s EXCEPT !.editrects = Append(@, NewEditRect),
              !.cmdlog = Append(@, [cmd |-> "AddEditRectCommand.begin",
                                    target |-> 0, parent |-> "RectEdit"])]

AddEditRectCommand_end(s) == s

-----------------------------------------------------------------------------
(* MoveRectCommand *)

MoveRectCommand_begin(s, ev, target) ==
    LET s1 == [s EXCEPT !.mrect = target, !.released = 0,
                        !.cmdlog = Append(@, [cmd |-> "MoveRectCommand.begin",
                                              target |-> target, parent |-> "unset"])]
        s2 == listen(s1, "MOUSEBUTTONUP", MoveUp)
    IN listen(s2, "MOUSEMOTION", MoveMotion)

\* self.rect.x on None raises AttributeError before anything is assigned
\* a plausible slip: the drag grows the rectangle instead of moving it
MoveRectCommand_on_mousemotion_resize(s, ev) ==
    IF s.mrect = 0
    THEN [s EXCEPT !.err = "AttributeError"]
    ELSE [s EXCEPT !.editrects[s.mrect].w = @ + ev.rel[1],
                   !.editrects[s.mrect].h = @ + ev.rel[2]]

MoveRectCommand_on_mousemotion(s, ev) ==
    IF s.mrect = 0
    THEN [s EXCEPT !.err = "AttributeError"]
    ELSE [s EXCEPT !.editrects[s.mrect].x = @ + ev.rel[1],
                   !.editrects[s.mrect].y = @ + ev.rel[2]]

\* a plausible slip: end() left as a stub, like AddEditRectCommand.end
MoveRectCommand_end_stub(s) ==
    [s EXCEPT !.released = IF s.mrect # 0 THEN s.mrect ELSE @]

MoveRectCommand_end(s) ==
    LET s1 == [s EXCEPT !.mrect = 0,
                        !.released = IF s.mrect # 0 THEN s.mrect ELSE @]
        s2 == unsubscribe(s1, "MOUSEBUTTONUP", MoveUp)
    IN IF s2.err # "none" THEN s2 ELSE unsubscribe(s2, "MOUSEMOTION", MoveMotion)

MoveRectCommand_on_mousebuttonup(s, ev) == MoveRectCommand_end(s)

-----------------------------------------------------------------------------
(* RectEdit handlers *)

RectEdit_on_quit(s, ev) == [s EXCEPT !.running = FALSE]

QuitKeys == {"K_ESCAPE", "K_q"}

QuitEvent == Event("QUIT", <<0, 0>>, <<0, 0>>, "none")

\* pygame.event.post appends to pygame's queue; nothing is dispatched here
RectEdit_on_keydown(s, ev) ==
    IF ev.key \in QuitKeys
    THEN [s EXCEPT !.queue = Append(@, QuitEvent)]
    ELSE s

SelectSeq2(seq, p) ==
    LET F[i \in 0..Len(seq)] ==
            IF i = 0 THEN <<>>
            ELSE IF collidepoint(seq[i], p) THEN Append(F[i-1], seq[i]) ELSE F[i-1]
    IN F[Len(seq)]

RECURSIVE HandlesUnder(_, _, _)
\* the handles of editrects[i..] that contain p, in iteration order
HandlesUnder(rects, p, i) ==
    IF i > Len(rects) THEN <<>>
    ELSE SelectSeq2(resize_handles(rects[i]), p) \o HandlesUnder(rects, p, i + 1)

\* a plausible slip: the colliding handles appended, the list never filtered
RectEdit_on_mousemotion_nofilter(s, ev) ==
    [s EXCEPT !.draw_rects = s.draw_rects \o HandlesUnder(s.editrects, ev.pos, 1)]

RectEdit_on_mousemotion(s, ev) ==
    LET appended == s.draw_rects \o HandlesUnder(s.editrects, ev.pos, 1)
    IN [s EXCEPT !.draw_rects = SelectSeq2(appended, ev.pos)]

RECURSIVE ButtonsFrom(_, _, _)
\* the else branch: every button containing the position, no break
ButtonsFrom(s, ev, j) ==
    IF j > Len(s.buttons) THEN s
    ELSE IF collidepoint(s.buttons[j], ev.pos)
         THEN ButtonsFrom(AddEditRectCommand_begin(s, ev), ev, j + 1)
         ELSE ButtonsFrom(s, ev, j + 1)

FirstHit(rects, p) ==
    LET hits == {i \in 1..Len(rects) : collidepoint(rects[i], p)}
    IN IF hits = {} THEN 0
       ELSE CHOOSE i \in hits : \A j \in hits : i <= j

\* a plausible slip: the for/else lost, the buttons tested after a rectangle hit
RectEdit_on_mousebuttondown_noelse(s, ev) ==
    LET i == FirstHit(s.editrects, ev.pos)
    IN IF i # 0
       THEN ButtonsFrom(MoveRectCommand_begin(s, ev, i), ev, 1)
       ELSE ButtonsFrom(s, ev, 1)

RectEdit_on_mousebuttondown(s, ev) ==
    LET i == FirstHit(s.editrects, ev.pos)
    IN IF i # 0
       THEN MoveRectCommand_begin(s, ev, i)
       ELSE ButtonsFrom(s, ev, 1)

RectEdit_on_mousebuttonup(s, ev) == s

-----------------------------------------------------------------------------
(* notify: Python's list iterator re-reads the list at every step *)

Invoke(cb, s, ev) ==
    CASE cb = "RectEdit.on_quit"            -> RectEdit_on_quit(s, ev)
      [] cb = "RectEdit.on_keydown"         -> RectEdit_on_keydown(s, ev)
      [] cb = "RectEdit.on_mousemotion"     -> RectEdit_on_mousemotion(s, ev)
      [] cb = "RectEdit.on_mousebuttondown" -> RectEdit_on_mousebuttondown(s, ev)
      [] cb = "RectEdit.on_mousebuttonup"   -> RectEdit_on_mousebuttonup(s, ev)
      [] cb = MoveUp                        -> MoveRectCommand_on_mousebuttonup(s, ev)
      [] cb = MoveMotion                    -> MoveRectCommand_on_mousemotion(s, ev)
      [] OTHER                              -> s

RECURSIVE NotifyFrom(_, _, _)
NotifyFrom(s, ev, i) ==
    IF s.err # "none" \/ i > Len(s.listeners[ev.type]) THEN s
    ELSE LET cb == s.listeners[ev.type][i]
             s1 == [s EXCEPT !.calls = Append(@, [cb |-> cb, ev |-> ev])]
         IN NotifyFrom(Invoke(cb, s1, ev), ev, i + 1)

RECURSIVE NotifyDistinctFrom(_, _, _)
NotifyDistinctFrom(s, ev, i) ==
    IF s.err # "none" \/ i > Len(s.listeners[ev.type]) THEN s
    ELSE LET cb == s.listeners[ev.type][i]
             s1 == [s EXCEPT !.calls = Append(@, [cb |-> cb, ev |-> ev])]
         IN IF \E k \in 1..Len(s.calls) : s.calls[k].cb = cb
            THEN NotifyDistinctFrom(s, ev, i + 1)
            ELSE NotifyDistinctFrom(Invoke(cb, s1, ev), ev, i + 1)

\* a plausible slip: the registry treated as a set, each callback called once
notify_distinct(s, ev) == NotifyDistinctFrom(s, ev, 1)

notify(s, ev) == NotifyFrom(s, ev, 1)

-----------------------------------------------------------------------------
(* RectEdit.reset and main *)

EmptyRegistry == [t \in EventTypes |-> <<>>]

RectEdit_reset ==
    [ listeners  |-> [t \in EventTypes |-> <<EditorCallbacks[t]>>],
      editrects  |-> <<>>,
      buttons    |-> <<>>,
      draw_rects |-> <<>>,
      mrect      |-> 0,
      released   |-> 0,
      running    |-> FALSE,
      queue      |-> <<>>,
      calls      |-> <<>>,
      cmdlog     |-> <<>>,
      err        |-> "none" ]

\* layout_horizontal over pairwise(rects): r2.left = r1.right + padding
layout_horizontal(rects, padding) ==
    LET F[i \in 1..Len(rects)] ==
            IF i = 1 THEN rects[1]
            ELSE [rects[i] EXCEPT !.x = F[i-1].x + F[i-1].w + padding]
    IN [i \in 1..Len(rects) |-> F[i]]

RECURSIVE PlaceButtons(_, _)
\* main: for each button, anchor it bottom-left, then lay all buttons out
PlaceButtons(rects, k) ==
    IF k > Len(rects) THEN rects
    ELSE LET anchored == [rects EXCEPT ![k].x = world.x + ButtonMargin,
                                       ![k].y = (world.y + world.h - ButtonMargin) - rects[k].h]
         IN PlaceButtons(layout_horizontal(anchored, 0), k + 1)

MainButtons ==
    PlaceButtons(<<Rect(0, 0, ButtonSize, ButtonSize), Rect(0, 0, ButtonSize, ButtonSize)>>, 1)

\* the editor as main() leaves it before loop(): reset, init, the two buttons
MainState == [RectEdit_reset EXCEPT !.buttons = MainButtons]

-----------------------------------------------------------------------------
(* shorthand: Python values are tagged, so that a number, None and a tuple *)
(* stay distinct arguments                                                 *)

IntV(n) == [k |-> "int", n |-> n, items |-> <<>>]

NoneV == [k |-> "None", n |-> 0, items |-> <<>>]

TupleV(items) == [k |-> "tuple", n |-> 0, items |-> items]

Outcome(result, a) ==
    [result |-> result, top |-> a[1], right |-> a[2], bottom |-> a[3], left |-> a[4]]

NotCalled == Outcome("unset", <<NoneV, NoneV, NoneV, NoneV>>)

Raised(exception) == Outcome(exception, <<NoneV, NoneV, NoneV, NoneV>>)

\* Shorthand(**dict(zip(keys, args))): the dataclass needs all four fields
MakeShorthand(a) ==
    IF Len(a) < 4 THEN Raised("TypeError") ELSE Outcome("Shorthand", a)

\* a plausible slip: three values expanded as 1 2 3 1
Expand_first(a, isnone, nargs) ==
    IF isnone THEN <<IntV(0), IntV(0), IntV(0), IntV(0)>>
    ELSE IF nargs = 1 THEN a \o a \o a \o a
    ELSE IF nargs = 2 THEN a \o a
    ELSE IF nargs = 3 THEN Append(a, a[1])
    ELSE a

\* the if/elif chain that fills the four sides
Expand(a, isnone, nargs) ==
    IF isnone THEN <<IntV(0), IntV(0), IntV(0), IntV(0)>>
    ELSE IF nargs = 1 THEN a \o a \o a \o a
    ELSE IF nargs = 2 THEN a \o a
    ELSE IF nargs = 3 THEN Append(a, a[2])
    ELSE a

\* a plausible slip: the arity is tested before a tuple argument is unwrapped
shorthand_arity_first(args) ==
    LET unwrap == Len(args) = 1 /\ args[1].k = "tuple"
        isnone == Len(args) = 1 /\ args[1].k = "None"
        a      == IF unwrap THEN args[1].items ELSE args
        nargs  == IF unwrap THEN Len(args[1].items) ELSE Len(args)
    IN IF Len(args) > 4 THEN Raised("RectEditError")
       ELSE MakeShorthand(Expand(a, isnone, nargs))

shorthand(args) ==
    LET unwrap == Len(args) = 1 /\ args[1].k = "tuple"
        isnone == Len(args) = 1 /\ args[1].k = "None"
        a      == IF unwrap THEN args[1].items ELSE args
        nargs  == IF unwrap THEN Len(args[1].items) ELSE Len(args)
    IN IF nargs > 4 THEN Raised("RectEditError")
       ELSE MakeShorthand(Expand(a, isnone, nargs))

-----------------------------------------------------------------------------
(* draw_border: an image is its pixels, a function from position to colour *)

\* pygame.draw.rect(image, color, rect) with the default width 0: the
\* rectangle is filled, clipped to the image; an empty rectangle draws nothing
draw_rect(pixels, color, rect) ==
    [p \in DOMAIN pixels |-> IF collidepoint(rect, p) THEN color ELSE pixels[p]]

\* a plausible slip: the right and bottom strips are not re-anchored
draw_border_norealign(pixels, size, color, width) ==
    LET ws     == shorthand(<<width>>)
        top    == Rect(0, 0, size[1], ws.top.n)
        right  == Rect(0, 0, ws.right.n, size[2])
        bottom == Rect(0, 0, size[1], ws.bottom.n)
        left   == Rect(0, 0, ws.left.n, size[2])
    IN IF ws.result # "Shorthand" THEN [err |-> ws.result, pixels |-> pixels]
       ELSE [err |-> "none",
             pixels |-> draw_rect(draw_rect(draw_rect(draw_rect(
                            pixels, color, top), color, right), color, bottom), color, left)]

\* four copies of image.get_rect(), resized to the shorthand of width, the
\* right and bottom ones moved to the right and bottom edge, filled in the
\* order top, right, bottom, left
draw_border(pixels, size, color, width) ==
    LET ws     == shorthand(<<width>>)
        top    == Rect(0, 0, size[1], ws.top.n)
        right  == Rect(size[1] - ws.right.n, 0, ws.right.n, size[2])
        bottom == Rect(0, size[2] - ws.bottom.n, size[1], ws.bottom.n)
        left   == Rect(0, 0, ws.left.n, size[2])
    IN IF ws.result # "Shorthand" THEN [err |-> ws.result, pixels |-> pixels]
       ELSE [err |-> "none",
             pixels |-> draw_rect(draw_rect(draw_rect(draw_rect(
                            pixels, color, top), color, right), color, bottom), color, left)]

-----------------------------------------------------------------------------
(* Inputs of the model *)

NoEvent == Event("none", <<0, 0>>, <<0, 0>>, "none")

\* pointer positions: empty screen, first button, second button, the
\* middle of a new rectangle, the top-left handle of a new rectangle
Positions == { <<0, 0>>, <<35, 565>>, <<85, 565>>, <<400, 300>>, <<310, 230>> }

\* relative motions: from the centre of the world onto the buttons and back
Deltas == { <<-265, 315>>, <<265, -315>> }

Keys == {"K_ESCAPE", "K_q", "K_a"}

Events ==
    {QuitEvent}
    \cup {Event("KEYDOWN", <<0, 0>>, <<0, 0>>, k) : k \in Keys}
    \cup {Event("MOUSEMOTION", p, d, "none") : p \in Positions, d \in Deltas}
    \cup {Event("MOUSEBUTTONDOWN", p, <<0, 0>>, "none") : p \in Positions}
    \cup {Event("MOUSEBUTTONUP", <<400, 300>>, <<0, 0>>, "none")}

Abs(n) == IF n < 0 THEN -n ELSE n

Bounded(s) ==
    /\ \A t \in EventTypes : Len(s.listeners[t]) <= MaxListeners
    /\ Len(s.editrects) <= MaxRects
    /\ Len(s.draw_rects) <= MaxDraw
    /\ Len(s.queue) <= MaxQueue
    /\ \A i \in 1..Len(s.editrects) :
          Abs(s.editrects[i].x) <= MaxCoord /\ Abs(s.editrects[i].y) <= MaxCoord

Operation(name, ev, cb) == [name |-> name, ev |-> ev, cb |-> cb]

LoopIdle == /\ pc = "init" /\ UNCHANGED <<pc, batch, ninputs>>

ShorthandIdle == UNCHANGED <<sh_args, sh_out>>

HandlesIdle == UNCHANGED <<er_rect, er_handles>>

BorderIdle == UNCHANGED <<im_size, im_width, im_pixels>>

HelpersIdle == ShorthandIdle /\ HandlesIdle /\ BorderIdle

\* no EditRect under test, no image under test
HandlesUnset == er_rect = Rect(0, 0, 0, 0) /\ er_handles = <<>>

BorderUnset == im_size = <<0, 0>> /\ im_width = NoneV /\ im_pixels = <<>>

-----------------------------------------------------------------------------
(* Spec: the editor driven call by call, as main() builds it, with events  *)
(* published through notify and the commands' methods called directly.     *)

Init ==
    /\ Install_Init(MainState)
    /\ op = Operation("main", NoEvent, "none")
    /\ pc = "init" /\ batch = <<>> /\ ninputs = 0
    /\ sh_args = <<>> /\ sh_out = NotCalled
    /\ HandlesUnset /\ BorderUnset

\* notify(ev) on a synthetic event
Notify(ev) ==
    \E s \in {notify(Fresh(State), ev)} :
       /\ Bounded(s)
       /\ Install(s)
       /\ op' = Operation("notify", ev, "none")
       /\ LoopIdle /\ HelpersIdle

\* MoveRectCommand.end() called directly on the editor's command
End ==
    /\ \E s \in {MoveRectCommand_end(Fresh(State))} : Install(s)
    /\ op' = Operation("MoveRectCommand.end", NoEvent, "none")
    /\ LoopIdle /\ HelpersIdle

\* AddEditRectCommand().begin(event) called directly, event.parent the editor
AddBegin ==
    \E s \in {AddEditRectCommand_begin(Fresh(State), NoEvent)} :
       /\ Bounded(s)
       /\ Install(s)
       /\ op' = Operation("AddEditRectCommand.begin", NoEvent, "none")
       /\ LoopIdle /\ HelpersIdle

\* AddEditRectCommand().end() called directly
AddEnd ==
    /\ \E s \in {AddEditRectCommand_end(Fresh(State))} : Install(s)
    /\ op' = Operation("AddEditRectCommand.end", NoEvent, "none")
    /\ LoopIdle /\ HelpersIdle

Next ==
    \/ \E ev \in Events : Notify(ev)
    \/ End
    \/ AddBegin
    \/ AddEnd

Spec == Init /\ [][Next]_vars

-----------------------------------------------------------------------------
(* Properties of the editor under Spec *)

IsNotify(o, type) == o.name = "notify" /\ o.ev.type = type

EditorUnchanged ==
    UNCHANGED <<listeners, editrects, buttons, draw_rects, mrect, running, queue>>

RectHits(p) == {i \in 1..Len(editrects) : collidepoint(editrects[i], p)}

ButtonHits(p) == {j \in 1..Len(buttons) : collidepoint(buttons[j], p)}

\* C1: whenever MoveRectCommand has a bound rectangle, publishing one
\* pointer-move event with relative delta (dx,dy) shifts that rectangle's
\* position by exactly (dx,dy), whatever presses, moves and releases came before.
C1_MoveShiftsByDelta ==
    [][ (IsNotify(op', "MOUSEMOTION") /\ mrect # 0) =>
            /\ editrects'[mrect].x = editrects[mrect].x + op'.ev.rel[1]
            /\ editrects'[mrect].y = editrects[mrect].y + op'.ev.rel[2] ]_vars

\* C2: once MoveRectCommand.end() has run (directly or through a published
\* release), every later published pointer-move leaves the rectangle it had
\* bound where it is, until a press binds a rectangle again.
C2_NoMoveAfterEnd ==
    [][ (IsNotify(op', "MOUSEMOTION") /\ released # 0) =>
            editrects'[released] = editrects[released] ]_vars

\* C2 witness: a pointer-move was published after end() unbound a rectangle
\* that an earlier drag had moved away from where it was created.
C2_Witness ==
    /\ IsNotify(op, "MOUSEMOTION")
    /\ released # 0 /\ mrect = 0
    /\ editrects[released] # NewEditRect

\* C3: once a pointer-release has been fully dispatched MoveRectCommand is
\* idle again: its rectangle is cleared and neither transient callback is
\* registered, so the registry is what it was before the first begin.
C3_ReleaseMakesIdle ==
    IsNotify(op, "MOUSEBUTTONUP") =>
        /\ mrect = 0
        /\ Count(listeners["MOUSEBUTTONUP"], MoveUp) = 0
        /\ Count(listeners["MOUSEMOTION"], MoveMotion) = 0
        /\ listeners = RectEdit_reset.listeners

\* C4: on a pointer-press, if some editable rectangle contains the position
\* then exactly one rectangle is bound as target, the current command's begin
\* runs exactly once and no button command runs; only if no rectangle
\* contains it does begin run on the command of each button containing it,
\* with the editor as parent; if nothing is hit, nothing changes.
C4_PressDispatch ==
    [][ IsNotify(op', "MOUSEBUTTONDOWN") =>
          LET p == op'.ev.pos IN
          /\ RectHits(p) # {} =>
                /\ Len(cmdlog') = 1
                /\ cmdlog'[1].cmd = "MoveRectCommand.begin"
                /\ cmdlog'[1].target \in RectHits(p)
                /\ mrect' = cmdlog'[1].target
                /\ editrects' = editrects
          /\ RectHits(p) = {} =>
                /\ Len(cmdlog') = Cardinality(ButtonHits(p))
                /\ \A k \in 1..Len(cmdlog') :
                      /\ cmdlog'[k].cmd = "AddEditRectCommand.begin"
                      /\ cmdlog'[k].parent = "RectEdit"
                /\ mrect' = mrect
          /\ (RectHits(p) = {} /\ ButtonHits(p) = {}) => EditorUnchanged ]_vars

\* C4 witness: a press on a button that a dragged rectangle covers began the
\* move command only.
C4_Witness ==
    /\ IsNotify(op, "MOUSEBUTTONDOWN")
    /\ \E j \in 1..Len(buttons) : collidepoint(buttons[j], op.ev.pos)
    /\ Len(cmdlog) = 1
    /\ cmdlog[1].cmd = "MoveRectCommand.begin"

\* a step in which AddEditRectCommand.begin ran once: called directly, or
\* through a press on one button
AddBeginRan ==
    \/ op'.name = "AddEditRectCommand.begin"
    \/ /\ IsNotify(op', "MOUSEBUTTONDOWN")
       /\ Len(cmdlog') = 1
       /\ cmdlog'[1].cmd = "AddEditRectCommand.begin"

\* C8: AddEditRectCommand.begin appends exactly one rectangle of size
\* (world.width // 4, world.height // 4) centred on the world's centre,
\* leaving the earlier rectangles, the registry and the commands as they
\* were; AddEditRectCommand.end changes nothing.
C8_AddAppendsCentredQuarter ==
    [][ /\ AddBeginRan =>
              /\ Len(editrects') = Len(editrects) + 1
              /\ SubSeq(editrects', 1, Len(editrects)) = editrects
              /\ editrects'[Len(editrects')].w = ScreenW \div 4
              /\ editrects'[Len(editrects')].h = ScreenH \div 4
              /\ center(editrects'[Len(editrects')]) = <<ScreenW \div 2, ScreenH \div 2>>
              /\ UNCHANGED <<listeners, mrect, buttons, draw_rects, running, queue>>
        /\ op'.name = "AddEditRectCommand.end" => EditorUnchanged ]_vars

\* C8 witness: begin was called when a rectangle already existed elsewhere.
C8_Witness ==
    /\ op.name = "AddEditRectCommand.begin"
    /\ Len(editrects) = 2
    /\ editrects[1] # NewEditRect
    /\ editrects[2].w = 200 /\ editrects[2].h = 150

-----------------------------------------------------------------------------
(* SpecBus: the listener registry on its own, as the module leaves it on   *)
(* import (no editor constructed), driven with callbacks f and g that do   *)
(* nothing but get called.                                                 *)

BusCallbacks == {"f", "g"}

BusTypes == {"MOUSEMOTION", "MOUSEBUTTONUP"}

BusEvent(type) == Event(type, <<0, 0>>, <<0, 0>>, "none")

InitBus ==
    /\ Install_Init([RectEdit_reset EXCEPT !.listeners = EmptyRegistry])
    /\ op = Operation("import", NoEvent, "none")
    /\ pc = "init" /\ batch = <<>> /\ ninputs = 0
    /\ sh_args = <<>> /\ sh_out = NotCalled
    /\ HandlesUnset /\ BorderUnset

\* listen(type, cb)
Listen(type, cb) ==
    \E s \in {listen(Fresh(State), type, cb)} :
       /\ Bounded(s)
       /\ Install(s)
       /\ op' = Operation("listen", BusEvent(type), cb)
       /\ LoopIdle /\ HelpersIdle

\* unsubscribe(type, cb)
Unsubscribe(type, cb) ==
    /\ \E s \in {unsubscribe(Fresh(State), type, cb)} : Install(s)
    /\ op' = Operation("unsubscribe", BusEvent(type), cb)
    /\ LoopIdle /\ HelpersIdle

NextBus ==
    \/ \E type \in BusTypes, cb \in BusCallbacks : Listen(type, cb)
    \/ \E type \in BusTypes, cb \in BusCallbacks : Unsubscribe(type, cb)
    \/ \E type \in BusTypes : Notify(BusEvent(type))
    \/ End

SpecBus == InitBus /\ [][NextBus]_vars

\* the state after the step, as one value
StateNext == [ listeners |-> listeners', editrects |-> editrects', buttons |-> buttons',
               draw_rects |-> draw_rects', mrect |-> mrect', released |-> released',
               running |-> running', queue |-> queue', calls |-> calls',
               cmdlog |-> cmdlog', err |-> err' ]

\* how many times a notify of ev in state s invokes cb
Invocations(s, ev, cb) ==
    LET after == notify(Fresh(s), ev).calls
    IN Cardinality({k \in 1..Len(after) : after[k].cb = cb})

\* C5: notify(event) invokes each callback registered for event.type once
\* per registration (duplicates once each), in registration order, passing
\* that event, and no callback registered only for other types; listen
\* registers at the end, so after listen(T, f) on an empty registry a notify
\* of type T invokes f exactly once.
C5_NotifyInRegistrationOrder ==
    [][ /\ op'.name = "notify" =>
              /\ Len(calls') = Len(listeners[op'.ev.type])
              /\ \A k \in 1..Len(calls') :
                    /\ calls'[k].cb = listeners[op'.ev.type][k]
                    /\ calls'[k].ev = op'.ev
        /\ op'.name = "listen" =>
              /\ listeners'[op'.ev.type] = listeners[op'.ev.type] \o <<op'.cb>>
              /\ \A t \in EventTypes \ {op'.ev.type} : listeners'[t] = listeners[t]
              /\ listeners[op'.ev.type] = <<>> => Invocations(StateNext, op'.ev, op'.cb) = 1
      ]_vars

\* C5 witness: a notify ran f, g, f for a type where f was registered twice,
\* while the other type had listeners of its own.
C5_Witness ==
    /\ op.name = "notify"
    /\ Len(calls) = 3
    /\ calls[1].cb = "f" /\ calls[2].cb = "g" /\ calls[3].cb = "f"
    /\ \E t \in BusTypes : t # op.ev.type /\ listeners[t] # <<>>

\* C6 as stated: after unsubscribe(T, f) returns normally, a later notify of
\* a type-T event does not invoke f, however often f had been registered.
C6_UnsubscribedNeverInvoked ==
    [][ (op'.name = "unsubscribe" /\ err' = "none") =>
            Invocations(StateNext, op'.ev, op'.cb) = 0 ]_vars

\* C6 amended: after unsubscribe(T, f) returns normally, a later notify of a
\* type-T event invokes f once fewer than it would have before the call (only
\* the first registration is removed, the other callbacks keep their order);
\* f is not invoked at all exactly when it had been registered once.
C6_UnsubscribeRemovesOneRegistration ==
    [][ (op'.name = "unsubscribe" /\ err' = "none") =>
            /\ Invocations(StateNext, op'.ev, op'.cb)
                  = Invocations(State, op'.ev, op'.cb) - 1
            /\ Count(listeners[op'.ev.type], op'.cb) = 1
                  <=> Invocations(StateNext, op'.ev, op'.cb) = 0
            /\ \A cb \in BusCallbacks \ {op'.cb} :
                  Invocations(StateNext, op'.ev, cb) = Invocations(State, op'.ev, cb)
      ]_vars

\* C6 witness: unsubscribe returned normally and f is still registered for
\* that type, because it had been registered more than once.
C6_Witness ==
    /\ op.name = "unsubscribe" /\ err = "none"
    /\ Count(listeners[op.ev.type], op.cb) >= 1

\* MoveRectCommand is idle: no rectangle bound, neither callback registered
CommandIdle ==
    /\ mrect = 0
    /\ Count(listeners["MOUSEBUTTONUP"], MoveUp) = 0
    /\ Count(listeners["MOUSEMOTION"], MoveMotion) = 0

\* C7: unsubscribe(T, f) when f is not registered for T fails with an error
\* and leaves the callbacks registered for every type as they were; so
\* MoveRectCommand.end() called while the command is idle fails.
C7_UnsubscribeAbsentRaises ==
    [][ /\ (op'.name = "unsubscribe" /\ Count(listeners[op'.ev.type], op'.cb) = 0) =>
              /\ err' = "ValueError"
              /\ listeners' = listeners
        /\ (op'.name = "MoveRectCommand.end" /\ CommandIdle) =>
              /\ err' = "ValueError"
              /\ listeners' = listeners
      ]_vars

\* C7 witness: unsubscribe of g failed for a type that has f registered.
C7_Witness ==
    /\ op.name = "unsubscribe" /\ err = "ValueError"
    /\ op.cb = "g"
    /\ Count(listeners[op.ev.type], "f") > 0
    /\ Count(listeners[op.ev.type], "g") = 0

-----------------------------------------------------------------------------
(* SpecShorthand: one call of shorthand on each argument tuple             *)

Numbers == {1, 2, 3}

RECURSIVE Tuples(_)
\* the tuples of numbers of length n
Tuples(n) ==
    IF n = 0 THEN {<<>>}
    ELSE {Append(a, IntV(v)) : a \in Tuples(n - 1), v \in Numbers}

NumberTuples == UNION {Tuples(n) : n \in 0..MaxArgs}

\* shorthand(v1, .., vn), shorthand((v1, .., vn)) and shorthand(None)
ShorthandCalls ==
    NumberTuples \cup {<<TupleV(a)>> : a \in NumberTuples} \cup {<<NoneV>>}

InitShorthand ==
    /\ Install_Init([RectEdit_reset EXCEPT !.listeners = EmptyRegistry])
    /\ op = Operation("import", NoEvent, "none")
    /\ pc = "init" /\ batch = <<>> /\ ninputs = 0
    /\ sh_args \in ShorthandCalls
    /\ sh_out = NotCalled
    /\ HandlesUnset /\ BorderUnset

CallShorthand ==
    /\ sh_out = NotCalled
    /\ sh_out' = shorthand(sh_args)
    /\ op' = Operation("shorthand", NoEvent, "none")
    /\ UNCHANGED <<listeners, editrects, buttons, draw_rects, mrect, released, running,
                   queue, calls, cmdlog, err, pc, batch, ninputs, sh_args>>
    /\ HandlesIdle /\ BorderIdle

NextShorthand == CallShorthand

SpecShorthand == InitShorthand /\ [][NextShorthand]_vars

\* the CSS expansion of 1 to 4 values into (top, right, bottom, left)
CssSides(v) ==
    CASE Len(v) = 1 -> <<v[1], v[1], v[1], v[1]>>
      [] Len(v) = 2 -> <<v[1], v[2], v[1], v[2]>>
      [] Len(v) = 3 -> <<v[1], v[2], v[3], v[2]>>
      [] Len(v) = 4 -> <<v[1], v[2], v[3], v[4]>>

Called == op.name = "shorthand"

\* C10: shorthand expands 1 to 4 values CSS-style into (top,right,bottom,left):
\* v -> (v,v,v,v); (a,b) -> (a,b,a,b); (a,b,c) -> (a,b,c,b); (a,b,c,d) verbatim;
\* the same record results when the values come as one tuple argument, and a
\* single None argument yields (0,0,0,0).
C10_ShorthandExpansion ==
    Called =>
        /\ (sh_args \in NumberTuples /\ Len(sh_args) \in 1..4) =>
              sh_out = Outcome("Shorthand", CssSides(sh_args))
        /\ (Len(sh_args) = 1 /\ sh_args[1].k = "tuple" /\ Len(sh_args[1].items) \in 1..4) =>
              sh_out = Outcome("Shorthand", CssSides(sh_args[1].items))
        /\ sh_args = <<NoneV>> =>
              sh_out = Outcome("Shorthand", <<IntV(0), IntV(0), IntV(0), IntV(0)>>)

\* C10 witness: shorthand((1, 2, 3)) returned (1, 2, 3, 2).
C10_Witness ==
    /\ Called
    /\ sh_args = <<TupleV(<<IntV(1), IntV(2), IntV(3)>>)>>
    /\ sh_out = Outcome("Shorthand", <<IntV(1), IntV(2), IntV(3), IntV(2)>>)

\* the values a call supplies: the arguments, or the items of a lone tuple
Values(args) ==
    IF Len(args) = 1 /\ args[1].k = "tuple" THEN args[1].items ELSE args

\* C11: shorthand called with no values (no arguments, or one empty tuple)
\* returns the fully populated record (0,0,0,0).
C11_NoValuesGiveZeros ==
    (Called /\ Values(sh_args) = <<>>) =>
        sh_out = Outcome("Shorthand", <<IntV(0), IntV(0), IntV(0), IntV(0)>>)

\* C12: shorthand called with more than 4 values, as separate arguments or as
\* one tuple, fails with RectEditError and returns no record; with 4 or fewer
\* values it never raises that error.
C12_ArityError ==
    Called =>
        /\ Len(Values(sh_args)) > 4 => sh_out = Raised("RectEditError")
        /\ Len(Values(sh_args)) <= 4 => sh_out.result # "RectEditError"

\* C12 witness: shorthand((1, 2, 3, 1, 2)) raised RectEditError.
C12_Witness ==
    /\ Called
    /\ sh_args = <<TupleV(<<IntV(1), IntV(2), IntV(3), IntV(1), IntV(2)>>)>>
    /\ sh_out.result = "RectEditError"

-----------------------------------------------------------------------------
(* SpecHandles: one EditRect, resize_handles() called on it                *)

\* positions of the owning rectangle: left of / above the origin, on it, inside
OwnerCoords == {-3, 0, 7}

OwnerRects ==
    {Rect(x, y, w, h) : x \in OwnerCoords, y \in OwnerCoords,
                        w \in 0..MaxSide, h \in 0..MaxSide}

InitHandles ==
    /\ Install_Init([RectEdit_reset EXCEPT !.listeners = EmptyRegistry])
    /\ op = Operation("import", NoEvent, "none")
    /\ pc = "init" /\ batch = <<>> /\ ninputs = 0
    /\ sh_args = <<>> /\ sh_out = NotCalled
    /\ er_rect \in OwnerRects /\ er_handles = <<>>
    /\ BorderUnset

\* EditRect(er_rect).resize_handles(): self.rect is only read
CallResizeHandles ==
    /\ op.name # "resize_handles"
    /\ er_handles' = resize_handles(er_rect)
    /\ er_rect' = er_rect
    /\ op' = Operation("resize_handles", NoEvent, "none")
    /\ UNCHANGED <<listeners, editrects, buttons, draw_rects, mrect, released, running,
                   queue, calls, cmdlog, err, pc, batch, ninputs>>
    /\ ShorthandIdle /\ BorderIdle

NextHandles == CallResizeHandles

SpecHandles == InitHandles /\ [][NextHandles]_vars

\* the rectangle h lies inside the rectangle r
Inside(h, r) ==
    /\ r.x <= h.x /\ h.x + h.w <= r.x + r.w
    /\ r.y <= h.y /\ h.y + h.h <= r.y + r.h

\* C13: resize_handles() returns exactly four squares of side min(w,h) // 4 in
\* the order topleft, topright, bottomright, bottomleft, each with its
\* like-named corner on the owner's like-named corner, so that every handle
\* lies inside the owner; the owning rectangle is not modified.
C13_ResizeHandles ==
    [][ op'.name = "resize_handles" =>
          LET r == er_rect
              hs == er_handles'
              side == Min2(r.w, r.h) \div 4
          IN /\ Len(hs) = 4
             /\ \A i \in 1..4 : hs[i].w = side /\ hs[i].h = side /\ Inside(hs[i], r)
             /\ hs[1].x = r.x /\ hs[1].y = r.y
             /\ hs[2].x + hs[2].w = r.x + r.w /\ hs[2].y = r.y
             /\ hs[3].x + hs[3].w = r.x + r.w /\ hs[3].y + hs[3].h = r.y + r.h
             /\ hs[4].x = r.x /\ hs[4].y + hs[4].h = r.y + r.h
             /\ er_rect' = r
      ]_vars

\* C13 witness: a 9x6 rectangle at (-3,7) got its four handles of side 1.
C13_Witness ==
    /\ op.name = "resize_handles"
    /\ er_rect = Rect(-3, 7, 9, 6)
    /\ er_handles = << Rect(-3, 7, 1, 1), Rect(5, 7, 1, 1),
                       Rect(5, 12, 1, 1), Rect(-3, 12, 1, 1) >>

-----------------------------------------------------------------------------
(* SpecBorder: one blank image, draw_border called on it with one width    *)

\* a new image of the given size, every pixel blank
BlankImage(size) ==
    [p \in (0..(size[1] - 1)) \X (0..(size[2] - 1)) |-> "blank"]

InitBorder ==
    /\ Install_Init([RectEdit_reset EXCEPT !.listeners = EmptyRegistry])
    /\ op = Operation("import", NoEvent, "none")
    /\ pc = "init" /\ batch = <<>> /\ ninputs = 0
    /\ sh_args = <<>> /\ sh_out = NotCalled
    /\ HandlesUnset
    /\ im_size \in (0..MaxImage) \X (0..MaxImage)
    /\ im_width \in {IntV(W) : W \in 0..MaxBorder}
    /\ im_pixels = BlankImage(im_size)

\* draw_border(image, color, width)
DrawBorder ==
    /\ op.name # "draw_border"
    /\ \E out \in {draw_border(im_pixels, im_size, "color", im_width)} :
          /\ im_pixels' = out.pixels
          /\ err' = out.err
    /\ op' = Operation("draw_border", NoEvent, "none")
    /\ UNCHANGED <<listeners, editrects, buttons, draw_rects, mrect, released, running,
                   queue, calls, cmdlog, pc, batch, ninputs, im_size, im_width>>
    /\ ShorthandIdle /\ HandlesIdle

NextBorder == DrawBorder

SpecBorder == InitBorder /\ [][NextBorder]_vars

\* C14: draw_border with uniform width W >= 0 fills exactly the pixels within
\* W of some edge of the image (x < W or x >= N-W or y < W or y >= N-W on an
\* N x N image; with the width and the height in place of N otherwise) and
\* changes no pixel of the interior beyond W.
C14_BorderPixels ==
    op.name = "draw_border" =>
        LET W == im_width.n
        IN /\ err = "none"
           /\ DOMAIN im_pixels = DOMAIN BlankImage(im_size)
           /\ \A p \in DOMAIN im_pixels :
                 im_pixels[p] =
                    IF \/ p[1] < W \/ p[1] >= im_size[1] - W
                       \/ p[2] < W \/ p[2] >= im_size[2] - W
                    THEN "color" ELSE "blank"

\* C14 witness: a border of width 1 on a 4x4 image, corners and edges filled,
\* the 2x2 interior untouched.
C14_Witness ==
    /\ op.name = "draw_border"
    /\ im_size = <<4, 4>> /\ im_width = IntV(1)
    /\ im_pixels[<<0, 0>>] = "color" /\ im_pixels[<<3, 2>>] = "color"
    /\ im_pixels[<<2, 3>>] = "color"
    /\ im_pixels[<<1, 1>>] = "blank" /\ im_pixels[<<2, 2>>] = "blank"

-----------------------------------------------------------------------------
(* SpecLoop: main() running loop(), the user producing input events that   *)
(* pygame queues and each frame drains                                     *)

\* what the user can do: close the window, press Escape, Q or A, press on
\* the first button or in the middle of the world, release, drag
LoopEvents ==
    { QuitEvent,
      Event("KEYDOWN", <<0, 0>>, <<0, 0>>, "K_ESCAPE"),
      Event("KEYDOWN", <<0, 0>>, <<0, 0>>, "K_q"),
      Event("KEYDOWN", <<0, 0>>, <<0, 0>>, "K_a"),
      Event("MOUSEBUTTONDOWN", <<35, 565>>, <<0, 0>>, "none"),
      Event("MOUSEBUTTONDOWN", <<400, 300>>, <<0, 0>>, "none"),
      Event("MOUSEBUTTONUP", <<400, 300>>, <<0, 0>>, "none"),
      Event("MOUSEMOTION", <<400, 300>>, <<-265, 315>>, "none") }

InitLoop ==
    /\ Install_Init(MainState)
    /\ op = Operation("main", NoEvent, "none")
    /\ pc = "init" /\ batch = <<>> /\ ninputs = 0
    /\ sh_args = <<>> /\ sh_out = NotCalled
    /\ HandlesUnset /\ BorderUnset

EditorIdle ==
    UNCHANGED <<listeners, editrects, buttons, draw_rects, mrect, released,
                calls, cmdlog, err>>

\* loop(): self.running = True
LoopStart ==
    /\ pc = "init"
    /\ running' = TRUE
    /\ pc' = "tick"
    /\ op' = Operation("loop", NoEvent, "none")
    /\ EditorIdle /\ HelpersIdle
    /\ UNCHANGED <<queue, batch, ninputs>>

\* the user produces an input event; pygame queues it (the user is at most
\* MaxPending events ahead of the loop)
UserInput(ev) ==
    /\ pc \in {"tick", "dispatch"}
    /\ ninputs < MaxInputs
    /\ Len(queue) + Len(batch) < MaxPending
    /\ ninputs' = ninputs + 1
    /\ queue' = Append(queue, ev)
    /\ EditorIdle /\ HelpersIdle
    /\ UNCHANGED <<running, pc, batch, op>>

\* while self.running: ... pygame.event.get() takes every queued event
Get ==
    /\ pc = "tick" /\ running
    /\ batch' = queue
    /\ queue' = <<>>
    /\ pc' = "dispatch"
    /\ op' = Operation("pygame.event.get", NoEvent, "none")
    /\ EditorIdle /\ HelpersIdle
    /\ UNCHANGED <<running, ninputs>>

\* for event in ...: notify(event); an exception leaves loop()
Dispatch ==
    /\ pc = "dispatch" /\ batch # <<>>
    /\ \E s \in {notify(Fresh(State), Head(batch))} :
          /\ Install(s)
          /\ pc' = IF s.err # "none" THEN "raised" ELSE "dispatch"
    /\ batch' = Tail(batch)
    /\ op' = Operation("notify", Head(batch), "none")
    /\ HelpersIdle
    /\ UNCHANGED ninputs

\* the rest of the frame: blit, draw, flip; no state of the editor changes
Render ==
    /\ pc = "dispatch" /\ batch = <<>>
    /\ pc' = "tick"
    /\ op' = Operation("render", NoEvent, "none")
    /\ EditorIdle /\ HelpersIdle
    /\ UNCHANGED <<running, queue, batch, ninputs>>

\* while self.running: false, loop() returns
LoopReturn ==
    /\ pc = "tick" /\ ~running
    /\ pc' = "returned"
    /\ op' = Operation("return", NoEvent, "none")
    /\ EditorIdle /\ HelpersIdle
    /\ UNCHANGED <<running, queue, batch, ninputs>>

NextLoop ==
    \/ LoopStart
    \/ \E ev \in LoopEvents : UserInput(ev)
    \/ Get
    \/ Dispatch
    \/ Render
    \/ LoopReturn

SpecLoop ==
    /\ InitLoop /\ [][NextLoop]_vars
    /\ WF_vars(LoopStart) /\ WF_vars(Get) /\ WF_vars(Dispatch)
    /\ WF_vars(Render) /\ WF_vars(LoopReturn)

\* the step dispatches the next event of the frame, of the given type
Dispatched(type) ==
    /\ pc = "dispatch" /\ batch # <<>> /\ batch' = Tail(batch)
    /\ Head(batch).type = type

QuitKeyDispatched == Dispatched("KEYDOWN") /\ Head(batch).key \in QuitKeys

\* C9: once a quit event is dispatched running becomes false and loop()
\* returns after finishing the current frame, the remaining events of that
\* frame still being dispatched; a key-press of Escape or Q publishes a quit
\* event for a later drain; no other key and no pointer event sets running to
\* false.
C9_QuitEndsLoop ==
    [][ /\ Dispatched("QUIT") => ~running'
        /\ (pc = "dispatch" /\ ~running) => pc' \in {"dispatch", "tick"}
        /\ (pc = "tick" /\ ~running) => pc' \in {"tick", "returned"}
        /\ QuitKeyDispatched =>
              /\ queue' = Append(queue, QuitEvent)
              /\ running' = running
        /\ (\E type \in EventTypes \ {"QUIT"} : Dispatched(type)) => running' = running
      ]_vars

-----------------------------------------------------------------------------
(* Further properties of Spec and SpecLoop *)

SetMax(S) == CHOOSE m \in S : \A n \in S : n <= m

\* how many of the invocations in log are of cb
Invoked(log, cb) == Cardinality({k \in 1..Len(log) : log[k].cb = cb})

\* C15: when a press position lies inside several overlapping editable
\* rectangles, the rectangle bound as the press target is the top-most one:
\* loop() draws editrects in list order, so the last of those hit.
C15_TopMostBound ==
    [][ (IsNotify(op', "MOUSEBUTTONDOWN") /\ RectHits(op'.ev.pos) # {}) =>
            mrect' = SetMax(RectHits(op'.ev.pos)) ]_vars

\* C16: notify(event) invokes every callback registered for event's type at
\* the moment notify is called, each exactly once per registration, also when
\* callbacks unsubscribe listeners of that type during the notification.
C16_NotifyInvokesAllRegistered ==
    [][ (op'.name = "notify" /\ err' = "none") =>
            /\ Len(calls') = Len(listeners[op'.ev.type])
            /\ \A k \in 1..Len(listeners[op'.ev.type]) :
                  LET cb == listeners[op'.ev.type][k]
                  IN Invoked(calls', cb) = Count(listeners[op'.ev.type], cb) ]_vars

\* C17: after the editor's pointer-move handler has processed an event, every
\* rectangle in draw_rects contains that event's position; those that do not
\* have been removed.
C17_DrawRectsUnderPointer ==
    IsNotify(op, "MOUSEMOTION") =>
        \A k \in 1..Len(draw_rects) : collidepoint(draw_rects[k], op.ev.pos)

\* C17 witness: after a pointer-move the list holds a handle under the
\* pointer that the drag has since moved its rectangle away from.
C17_Witness ==
    /\ IsNotify(op, "MOUSEMOTION")
    /\ Len(draw_rects) >= 1
    /\ collidepoint(draw_rects[1], op.ev.pos)
    /\ \A i \in 1..Len(editrects) :
          \A k \in 1..4 : resize_handles(editrects[i])[k] # draw_rects[1]

\* C18: in every state reachable by pointer-press, pointer-move and
\* pointer-release events, two presses with no release in between included,
\* whenever MoveRectCommand.on_mousemotion is registered for pointer-move
\* events the command's rectangle is not None, so that dispatching a
\* pointer-move event never fails.
C18_MotionListenerHasRect ==
    /\ Count(listeners["MOUSEMOTION"], MoveMotion) > 0 => mrect # 0
    /\ IsNotify(op, "MOUSEMOTION") => err = "none"

\* C19: over any sequence of pointer-move events draw_rects never holds more
\* entries than there are resize handles, len(draw_rects) <= 4 * len(editrects),
\* and the same handle is not accumulated more than once: a handle rectangle
\* occurs at most once for each editable rectangle.
C19_HandlesNotAccumulated ==
    /\ Len(draw_rects) <= 4 * Len(editrects)
    /\ \A k \in 1..Len(draw_rects) :
          Count(draw_rects, draw_rects[k]) <= Len(editrects)

PointerEvents == {"MOUSEBUTTONDOWN", "MOUSEMOTION", "MOUSEBUTTONUP"}

\* C20: press, move and release events never change the size of an editable
\* rectangle and never remove or reorder entries of editrects; a pointer-move
\* changes the position of at most the rectangle bound to MoveRectCommand and
\* of no other; the list grows only by a button press, by one per button hit.
C20_PointerEventsFrame ==
    [][ (op'.name = "notify" /\ op'.ev.type \in PointerEvents) =>
          LET p == op'.ev.pos
              n == Len(editrects)
              added == IF op'.ev.type = "MOUSEBUTTONDOWN" /\ RectHits(p) = {}
                       THEN Cardinality(ButtonHits(p)) ELSE 0
          IN /\ Len(editrects') = n + added
             /\ \A i \in 1..n :
                   /\ editrects'[i].w = editrects[i].w
                   /\ editrects'[i].h = editrects[i].h
                   /\ (op'.ev.type # "MOUSEMOTION" \/ i # mrect) =>
                         editrects'[i] = editrects[i]
      ]_vars

\* C20 witness: a pointer-move during a drag, with two rectangles of which
\* one has been moved away from where both were created.
C20_Witness ==
    /\ IsNotify(op, "MOUSEMOTION")
    /\ mrect # 0
    /\ Len(editrects) = 2
    /\ editrects[mrect] # NewEditRect
    /\ \E i \in 1..2 : i # mrect /\ editrects[i] = NewEditRect

====
